---- MODULE Spec2Model ----
(***************************************************************************)
(* Delivery queue, quota ledger and scheduled-ad promoter of tlx-ads.      *)
(*                                                                         *)
(* The store is one SQLite database.  Every handler opens its own          *)
(* connection (db.get_db); Python's sqlite3 opens a transaction before the *)
(* first INSERT/UPDATE of a connection and SQLite gives the write lock to  *)
(* one connection at a time, so a connection that has written holds the    *)
(* lock until get_db commits or rolls back.  SELECTs issued before the     *)
(* first write run outside any transaction and see the committed state.    *)
(*   db   : the committed tables                                           *)
(*   tx   : the tables as the lock holder sees them (= db when lock = 0)   *)
(*   lock : the process holding the write lock, 0 when free                *)
(***************************************************************************)
EXTENDS Integers, Sequences, FiniteSets, TLC

VARIABLES clock, db, tx, lock, proc, sendCount

vars == <<clock, db, tx, lock, proc, sendCount>>

-----------------------------------------------------------------------------
(* Bounds of the model *)

NumProcs == 2
MaxDeliveries == 2
MaxTicks == 2
MaxNotes == 2
MaxAttempt == 12
MaxSends == 2

(* Program constants *)

DayLen == 86400
BackoffBase == 15
BackoffCap == 3600
DefaultMaxAttempts == 5
FreeDailyLimit == 200
ProDailyLimit == 2000
BusinessDailyLimit == 20000
DefaultListLimit == 50

Procs == 1..NumProcs
Tenants == {1, 2}

RECURSIVE Pow2(_)
Pow2(n) == IF n <= 0 THEN 1 ELSE 2 * Pow2(n - 1)

Max(a, b) == IF a >= b THEN a ELSE b
Min(a, b) == IF a <= b THEN a ELSE b

\* defect: the exponent is the attempt count itself, the first retry waits
\* twice the base
backoff_exponent_not_decremented(attempt) ==
    Min(BackoffBase * Pow2(Max(0, attempt)), BackoffCap)

\* worker_deliveries._backoff_seconds
_backoff_seconds(attempt) ==
    Min(BackoffBase * Pow2(Max(0, attempt - 1)), BackoffCap)

(* The clock is observed every TickLen seconds from StartClock on, TickLen *)
(* being the wait before the last attempt of a row, so that a retry that   *)
(* falls due does so exactly at an observed instant.  The first instant    *)
(* after StartClock is a UTC midnight.                                     *)
TickLen == _backoff_seconds(DefaultMaxAttempts - 1)
StartClock == DayLen - TickLen
MaxClock == StartClock + MaxTicks * TickLen

-----------------------------------------------------------------------------
(* Timestamps.  The tables hold them as text; a text is modelled by its    *)
(* local wall-clock second count and its UTC-offset suffix.                *)

NullTs == [null |-> TRUE, loc |-> 0, sfx |-> "+00:00"]

Stamp(loc, sfx) == [null |-> FALSE, loc |-> loc, sfx |-> sfx]

\* db.now_iso / datetime.isoformat of an aware UTC datetime: suffix +00:00
now_iso(t) == Stamp(t, "+00:00")

\* seconds east of UTC denoted by a suffix
OffsetOf(sfx) ==
    CASE sfx = "+00:00" -> 0
      [] sfx = "-00:01" -> 0 - 60
      [] sfx = "Z" -> 0

\* position of the suffix in byte order ('+' < '-' < 'Z')
SuffixRank(sfx) ==
    CASE sfx = "+00:00" -> 0
      [] sfx = "-00:01" -> 1
      [] sfx = "Z" -> 2

\* a text without UTC offset: datetime.fromisoformat gives a naive datetime
Naive(ts) == ts.sfx = ""

\* the instant a timestamp text denotes (datetime.fromisoformat)
Instant(ts) == ts.loc - OffsetOf(ts.sfx)

\* SQLite's <= on two TEXT values of this layout: byte-wise, local part first
TextLE(a, b) ==
    \/ a.loc < b.loc
    \/ a.loc = b.loc /\ SuffixRank(a.sfx) <= SuffixRank(b.sfx)

\* defect: the key drops the day of the month, the counters are per month
utc_month_key(t) == t \div (30 * DayLen)

\* saas._utc_day_key
_utc_day_key(t) == t \div DayLen

-----------------------------------------------------------------------------
(* Text normalisation done by the handlers, on the inputs of the model.    *)

\* str(channel).strip().lower()
NormChannel(c) ==
    CASE c = "WhatsApp" -> "whatsapp"
      [] c = " FAIL" -> "fail"
      [] OTHER -> c

\* (idempotency_key or secure_token(16)).strip(); fresh is the new token,
\* "NONE" stands for an absent key
NormKey(k, fresh) ==
    CASE k = "NONE" -> fresh
      [] k = " k1" -> "k1"
      [] OTHER -> k

\* secrets.token_urlsafe: a key no earlier row carries
secure_token(n) == "tok" \o ToString(n)

\* str.lower() on the texts of the model
Lower(s) ==
    CASE s = "user@force-FAIL.test" -> "user@force-fail.test"
      [] s = " FAIL" -> " fail"
      [] s = "WhatsApp" -> "whatsapp"
      [] s = "Email" -> "email"
      [] s = "X" -> "x"
      [] OTHER -> s

\* "fail" in s
ContainsFail(s) == s \in {"user@force-fail.test", "fail", " fail"}

\* obj.get("force_fail") is True
ForceFail(payload_json) == payload_json = "{force_fail: true}"

-----------------------------------------------------------------------------
(* Quota ledger (saas.py).  A value T is the tables a connection sees:     *)
(*   T.deliveries : sequence of rows, the row at index i has id i          *)
(*   T.usage      : tenant_usage_daily, a function on <<tenant, day>>      *)
(*   T.plans      : tenant_plans, a function on tenants                    *)
(*   T.ads        : ads, a sequence, the ad at index i has id i            *)
(*   T.notes      : ad_deliveries, a sequence                              *)

NoLimit == 0 - 1

\* saas.LIMITS_BY_PLAN[...].sends_daily_total, None as NoLimit
LIMITS_BY_PLAN ==
    [free |-> FreeDailyLimit, pro |-> ProDailyLimit,
     business |-> BusinessDailyLimit, enterprise |-> NoLimit]

\* saas._get_limits: an unknown plan name falls back to free
_get_limits(plan) ==
    IF plan \in DOMAIN LIMITS_BY_PLAN THEN LIMITS_BY_PLAN[plan]
    ELSE LIMITS_BY_PLAN["free"]

\* saas.ensure_plan_row: INSERT OR IGNORE of a free/active row
ensure_plan_row(T, tenant) ==
    IF tenant \in DOMAIN T.plans THEN T
    ELSE [T EXCEPT !.plans = (tenant :> [plan |-> "free", status |-> "active"]) @@ @]

\* saas.get_plan, on tables where the row is ensured
get_plan(T, tenant) == ensure_plan_row(T, tenant).plans[tenant]

ZeroUsage == [sends_total |-> 0, sends_whatsapp |-> 0, sends_x |-> 0, sends_email |-> 0]

\* saas._ensure_usage_day_row: INSERT OR IGNORE of a zero row
_ensure_usage_day_row(T, tenant, day) ==
    IF <<tenant, day>> \in DOMAIN T.usage THEN T
    ELSE [T EXCEPT !.usage = (<<tenant, day>> :> ZeroUsage) @@ @]

\* defect: the check forgets the amount it is asked to admit
check_ignoring_amount(T, tenant, amount, t) ==
    LET T1 == ensure_plan_row(T, tenant)
        p == T1.plans[tenant]
        limit == _get_limits(p.plan)
        day == _utc_day_key(t)
        T2 == _ensure_usage_day_row(T1, tenant, day)
        current == T2.usage[<<tenant, day>>].sends_total
    IN  IF p.status = "canceled" THEN [raises |-> TRUE, T |-> T1]
        ELSE IF limit = NoLimit THEN [raises |-> FALSE, T |-> T1]
        ELSE [raises |-> current > limit, T |-> T2]

\* defect: the check returns for an unlimited plan before it looks at the
\* status
check_limit_before_status(T, tenant, amount, t) ==
    LET T1 == ensure_plan_row(T, tenant)
        p == T1.plans[tenant]
        limit == _get_limits(p.plan)
        day == _utc_day_key(t)
        T2 == _ensure_usage_day_row(T1, tenant, day)
        current == T2.usage[<<tenant, day>>].sends_total
    IN  IF limit = NoLimit THEN [raises |-> FALSE, T |-> T1]
        ELSE IF p.status = "canceled" THEN [raises |-> TRUE, T |-> T1]
        ELSE [raises |-> current + amount > limit, T |-> T2]

\* saas.check_daily_send_or_raise at time t: whether it raises 402, and the
\* tables it leaves to the connection (the rows it ensured on the way)
check_daily_send_or_raise(T, tenant, amount, t) ==
    LET T1 == ensure_plan_row(T, tenant)
        p == T1.plans[tenant]
        limit == _get_limits(p.plan)
        day == _utc_day_key(t)
        T2 == _ensure_usage_day_row(T1, tenant, day)
        current == T2.usage[<<tenant, day>>].sends_total
    IN  IF p.status = "canceled" THEN [raises |-> TRUE, T |-> T1]
        ELSE IF limit = NoLimit THEN [raises |-> FALSE, T |-> T1]
        ELSE [raises |-> current + amount > limit, T |-> T2]

\* the per-channel column increment_daily_send picks
ChannelKey(channel) ==
    LET ch == Lower(channel)
    IN  CASE ch = "whatsapp" -> "sends_whatsapp"
          [] ch \in {"x", "twitter"} -> "sends_x"
          [] ch = "email" -> "sends_email"
          [] OTHER -> "sends_total"

\* saas.increment_daily_send at time t.  The UPDATE names sends_total and
\* the channel column; when both are sends_total SQLite applies one of the
\* two equal assignments.
increment_daily_send(T, tenant, channel, amount, t) ==
    LET day == _utc_day_key(t)
        T1 == _ensure_usage_day_row(T, tenant, day)
        row == T1.usage[<<tenant, day>>]
        key == ChannelKey(channel)
        row1 == [row EXCEPT !.sends_total = @ + amount]
        row2 == IF key = "sends_total" THEN row1
                ELSE [row1 EXCEPT ![key] = @ + amount]
    IN  [T1 EXCEPT !.usage[<<tenant, day>>] = row2]

-----------------------------------------------------------------------------
(* Delivery worker (jobs/worker_deliveries.py) *)

\* worker_deliveries._should_fail
_should_fail(channel, to_addr, payload_json) ==
    \/ ContainsFail(Lower(to_addr))
    \/ ForceFail(payload_json)
    \/ Lower(channel) = "fail"

\* defect: the WHERE clause selects new rows only
EligibleQueuedOnly(row, now) ==
    /\ row.status = "queued"
    /\ (row.next_attempt_at.null \/ TextLE(row.next_attempt_at, now_iso(now)))

\* defect: the WHERE clause without its status condition
EligibleByTimeOnly(row, now) ==
    row.next_attempt_at.null \/ TextLE(row.next_attempt_at, now_iso(now))

\* the WHERE clause of the worker's SELECT, for a row and the query's now
Eligible(row, now) ==
    /\ row.status \in {"queued", "retrying"}
    /\ (row.next_attempt_at.null \/ TextLE(row.next_attempt_at, now_iso(now)))

RECURSIVE Select(_, _, _)
\* ids of the rows of ds from index i on that satisfy Eligible, ascending
Select(ds, i, now) ==
    IF i > Len(ds) THEN <<>>
    ELSE IF Eligible(ds[i], now) THEN <<i>> \o Select(ds, i + 1, now)
    ELSE Select(ds, i + 1, now)

\* defect: the rows are taken from the end of the ordered result, the
\* highest ids first in line
LimitFromEnd(s, n) == IF Len(s) <= n THEN s ELSE SubSeq(s, Len(s) - n + 1, Len(s))

\* ... ORDER BY id ASC LIMIT batch
Limit(s, n) == IF Len(s) <= n THEN s ELSE SubSeq(s, 1, n)

\* the columns the worker's SELECT copies out of a row
Snapshot(row) ==
    [id |-> row.id, attempts |-> row.attempts, max_attempts |-> row.max_attempts,
     channel |-> row.channel, to_addr |-> row.to_addr, payload_json |-> row.payload_json]

\* defect: the claim sets the status and leaves attempts as they were
ClaimRowNoIncrement(row, next_attempt) ==
    [row EXCEPT !.status = "sending"]

\* UPDATE deliveries SET status = 'sending', attempts = ?, updated_at = ? WHERE id = ?
ClaimRow(row, next_attempt) ==
    [row EXCEPT !.status = "sending", !.attempts = next_attempt]

\* defect: the retry branch records the error and the time of the next
\* attempt and leaves the status as the claim set it
ResolveRowRetryKeepsStatus(row, r, next_attempt, now) ==
    IF _should_fail(r.channel, r.to_addr, r.payload_json)
    THEN IF next_attempt >= r.max_attempts
         THEN [row EXCEPT !.status = "failed", !.last_error = "Simulated failure (DLQ)",
                          !.next_attempt_at = NullTs]
         ELSE [row EXCEPT !.last_error = "Simulated failure",
                          !.next_attempt_at = now_iso(now + _backoff_seconds(next_attempt))]
    ELSE [row EXCEPT !.status = "sent", !.last_error = "NULL",
                     !.next_attempt_at = NullTs]

\* the branch taken after the claim (lines 85-117): the row as the UPDATE leaves it
ResolveRow(row, r, next_attempt, now) ==
    IF _should_fail(r.channel, r.to_addr, r.payload_json)
    THEN IF next_attempt >= r.max_attempts
         THEN [row EXCEPT !.status = "failed", !.last_error = "Simulated failure (DLQ)",
                          !.next_attempt_at = NullTs]
         ELSE [row EXCEPT !.status = "retrying", !.last_error = "Simulated failure",
                          !.next_attempt_at = now_iso(now + _backoff_seconds(next_attempt))]
    ELSE [row EXCEPT !.status = "sent", !.last_error = "NULL",
                     !.next_attempt_at = NullTs]

-----------------------------------------------------------------------------
(* State *)

Idle == [pc |-> "idle"]

\* campaigns and segments: campaign 1 and segment 1 belong to tenant 1;
\* 0 stands for no campaign_id
CampaignOwner(c) == 1
SegmentOwner(g) == 1

\* the contacts of segment 1
Contacts ==
    <<[email |-> "user@ok.test", phone |-> ""],
      [email |-> "user@force-FAIL.test", phone |-> "5511"]>>

Req(tenant, channel, to_addr, payload, key, campaign) ==
    [tenant |-> tenant, channel |-> channel, to_addr |-> to_addr, payload |-> payload,
     idempotency_key |-> key, campaign_id |-> campaign]

\* the request bodies the callers of POST /deliveries send
Requests ==
    {Req(1, "WhatsApp", "user@ok.test", "{}", "k1", 1),
     Req(1, "sms", "user@ok.test", "{force_fail: true}", " k1", 0),
     Req(2, " FAIL", "user@ok.test", "{force_fail: 1}", "k1", 0),
     Req(2, "sms", "user@ok.test", "{}", "NONE", 1)}

\* the scheduled_at values the callers of POST /automation/segment-send send
SchedInputs == {NullTs, Stamp(StartClock + TickLen - 2 * BackoffBase, "-00:01")}

\* a row of deliveries as both INSERTs write it (main.py 1189-1197, 1236-1244)
NewDelivery(id, tenant, campaign, channel, to_addr, payload_json, key, next_at) ==
    [id |-> id, tenant_id |-> tenant, campaign_id |-> campaign, channel |-> channel,
     to_addr |-> to_addr, payload_json |-> payload_json, idempotency_key |-> key,
     status |-> "queued", attempts |-> 0, max_attempts |-> DefaultMaxAttempts,
     next_attempt_at |-> next_at, last_error |-> "NULL"]

\* a row enqueued on an earlier day by tenant 1 that has failed a times and
\* is due for its next attempt at StartClock
OldRow(a) ==
    [NewDelivery(1, 1, 0, "sms", "user@force-FAIL.test", "{}", "k0", now_iso(StartClock))
       EXCEPT !.status = "retrying", !.attempts = a, !.last_error = "Simulated failure"]

OldAttempts == {DefaultMaxAttempts - 2}

\* the scheduled ads: ad 1 of tenant 1 is due at StartClock, ad 2 of
\* tenant 2 falls due one tick later
InitAds ==
    <<[id |-> 1, tenant_id |-> 1, channel |-> "X", status |-> "scheduled",
       scheduled_at |-> Stamp(StartClock, "Z")],
      [id |-> 2, tenant_id |-> 2, channel |-> "email", status |-> "scheduled",
       scheduled_at |-> Stamp(StartClock + TickLen, "+00:00")]>>

\* the store of a new installation
FreshTables ==
    [deliveries |-> <<>>, usage |-> <<>>, plans |-> <<>>, ads |-> InitAds, notes |-> <<>>]

\* the store after tenant 1 has used the free plan for a while: one send
\* left today, one row of an earlier day about to exhaust its attempts
UsedTables(a) ==
    [deliveries |-> <<OldRow(a)>>,
     usage |-> (<<1, _utc_day_key(StartClock)>> :>
                  [ZeroUsage EXCEPT !.sends_total = FreeDailyLimit - 1]),
     plans |-> (1 :> [plan |-> "free", status |-> "active"]),
     ads |-> InitAds, notes |-> <<>>]

Init ==
    /\ clock = StartClock
    /\ db \in {FreshTables} \cup {UsedTables(a) : a \in OldAttempts}
    /\ tx = db
    /\ lock = 0
    /\ proc = [p \in Procs |-> Idle]
    /\ sendCount = [i \in 1..MaxDeliveries |-> 0]

\* get_db: commit on normal exit, the lock is released
Commit(T) == db' = T /\ tx' = T /\ lock' = 0

\* the connection of p may write: the lock is free or already its own
CanWrite(p) == lock \in {0, p}

\* the tables fit the bounds of the model
Fits(T) == Len(T.deliveries) <= MaxDeliveries /\ Len(T.notes) <= MaxNotes

-----------------------------------------------------------------------------
(* POST /deliveries (main.enqueue_delivery) *)

\* defect: the idempotency key is unique over all tenants, the lookup does
\* not ask for the tenant
FindKeyAnyTenant(ds, tenant, key) ==
    IF \E i \in 1..Len(ds) : ds[i].idempotency_key = key
    THEN CHOOSE i \in 1..Len(ds) : ds[i].idempotency_key = key
    ELSE 0

\* id of the row of ds with this tenant and idempotency key, 0 if none
FindKey(ds, tenant, key) ==
    IF \E i \in 1..Len(ds) : ds[i].tenant_id = tenant /\ ds[i].idempotency_key = key
    THEN CHOOSE i \in 1..Len(ds) : ds[i].tenant_id = tenant /\ ds[i].idempotency_key = key
    ELSE 0

\* keys held by rows of T
KeysInUse(T) == {T.deliveries[i].idempotency_key : i \in 1..Len(T.deliveries)}

\* the token a call draws: one that no row holds yet
FreshToken(T) ==
    secure_token(CHOOSE n \in 1..(Len(T.deliveries) + 1) :
        /\ secure_token(n) \notin KeysInUse(T)
        /\ \A m \in 1..(n - 1) : secure_token(m) \in KeysInUse(T))

\* the response of a finished enqueue_delivery; prior is the id the key had
\* in the table when the call arrived, 0 if it had none
EnqueueDone(tenant, res, id, prior) ==
    [pc |-> "done", op |-> "enqueue", tenant |-> tenant, res |-> res, id |-> id,
     prior |-> prior]

\* lines 1207-1220: the normalised fields of the request at time t
EnqueueInput(T, data, t) ==
    [tenant |-> data.tenant, campaign |-> data.campaign_id,
     channel |-> NormChannel(data.channel), to_addr |-> data.to_addr,
     payload_json |-> data.payload,
     key |-> NormKey(data.idempotency_key, FreshToken(T)), ts |-> t]

\* defect: the table has no UNIQUE(tenant_id, idempotency_key), the INSERT
\* always succeeds
InsertDeliveryNoUnique(T, l) ==
    [old |-> 0, did |-> Len(T.deliveries) + 1,
     T |-> [T EXCEPT !.deliveries = Append(@,
              NewDelivery(Len(T.deliveries) + 1, l.tenant, l.campaign, l.channel,
                          l.to_addr, l.payload_json, l.key, now_iso(l.ts)))]]

\* lines 1235-1257 on the tables T of the connection: the INSERT, or on the
\* unique-key violation the existing row; old is that row's id, 0 if inserted
InsertDelivery(T, l) ==
    LET old == FindKey(T.deliveries, l.tenant, l.key)
        did == Len(T.deliveries) + 1
    IN  IF old # 0 THEN [old |-> old, did |-> 0, T |-> T]
        ELSE [old |-> 0, did |-> did,
              T |-> [T EXCEPT !.deliveries = Append(@,
                       NewDelivery(did, l.tenant, l.campaign, l.channel, l.to_addr,
                                   l.payload_json, l.key, now_iso(l.ts)))]]

\* defect: the increment runs before the check and a rejected call keeps
\* what it wrote
EnqueueTxnIncrementFirst(T, l, t) ==
    LET inc == increment_daily_send(T, l.tenant, l.channel, 1, t)
        c == check_daily_send_or_raise(inc, l.tenant, 1, t)
        ins == InsertDelivery(c.T, l)
    IN  IF l.campaign # 0 /\ CampaignOwner(l.campaign) # l.tenant
        THEN [res |-> "404", id |-> 0, T |-> T]
        ELSE IF c.raises THEN [res |-> "402", id |-> 0, T |-> c.T]
        ELSE [res |-> "ok", id |-> (IF ins.old # 0 THEN ins.old ELSE ins.did),
              T |-> ins.T]

\* lines 1222-1270 at time t on the committed tables: the 404 of the
\* campaign lookup, the 402 of the check (rollback), the existing row
\* (commit, no increment), or the new row and its increment (commit)
EnqueueTxn(T, l, t) ==
    LET c == check_daily_send_or_raise(T, l.tenant, 1, t)
        ins == InsertDelivery(c.T, l)
    IN  IF l.campaign # 0 /\ CampaignOwner(l.campaign) # l.tenant
        THEN [res |-> "404", id |-> 0, T |-> T]
        ELSE IF c.raises THEN [res |-> "402", id |-> 0, T |-> T]
        ELSE IF ins.old # 0 THEN [res |-> "ok", id |-> ins.old, T |-> ins.T]
        ELSE [res |-> "ok", id |-> ins.did,
              T |-> increment_daily_send(ins.T, l.tenant, l.channel, 1, t)]

\* The handler from its first line to the exit of get_db.  Before line 1233
\* it reads the clock and the campaign only.  The first statement of the
\* check takes the write lock and the connection keeps it until it commits
\* or rolls back, so no other connection writes in between; it waits for
\* the lock at most busy_timeout (5 s), less than a step of the clock.
enqueue_delivery(p) ==
    /\ proc[p].pc = "idle"
    /\ lock = 0
    /\ \E data \in Requests :
         LET l == EnqueueInput(db, data, clock)
             r == EnqueueTxn(db, l, clock)
         IN  /\ Fits(r.T)
             /\ Commit(r.T)
             /\ proc' = [proc EXCEPT ![p] =
                  EnqueueDone(l.tenant, r.res, r.id,
                              FindKey(db.deliveries, l.tenant, l.key))]
    /\ UNCHANGED <<clock, sendCount>>

\* the handler has returned; the slot serves the next request
Return(p) ==
    /\ proc[p].pc = "done"
    /\ proc' = [proc EXCEPT ![p] = Idle]
    /\ UNCHANGED <<clock, db, tx, lock, sendCount>>

-----------------------------------------------------------------------------
(* POST /automation/segment-send (main.automation_segment_send) *)

SegmentChannels == {"Email", "whatsapp"}

SegmentOut0 == [queued |-> 0, failed |-> 0, skipped |-> 0]

RECURSIVE SegmentLoop(_, _, _, _, _)
\* lines 1168-1199 at time t: the loop over the contacts cs on the tables T
SegmentLoop(T, cs, l, t, out) ==
    IF cs = <<>> THEN [T |-> T, out |-> out]
    ELSE LET c == Head(cs)
             to_addr == IF l.channel = "email" THEN c.email ELSE c.phone
             chk == check_daily_send_or_raise(T, l.tenant, 1, t)
             did == Len(chk.T.deliveries) + 1
             T1 == [chk.T EXCEPT !.deliveries = Append(@,
                      NewDelivery(did, l.tenant, 0, l.channel, to_addr, "{body}",
                                  FreshToken(chk.T), l.scheduled_at))]
             T2 == increment_daily_send(T1, l.tenant, l.channel, 1, t)
         IN  IF to_addr = ""
             THEN SegmentLoop(T, Tail(cs), l, t, [out EXCEPT !.skipped = @ + 1])
             ELSE IF chk.raises
             THEN [T |-> chk.T, out |-> [out EXCEPT !.failed = @ + 1]]
             ELSE SegmentLoop(T2, Tail(cs), l, t, [out EXCEPT !.queued = @ + 1])

\* The handler from its first line to the exit of get_db: the segment
\* lookup (404), then the loop; its first check takes the write lock, the
\* loop runs under it, the commit releases it
automation_segment_send(p) ==
    /\ proc[p].pc = "idle"
    /\ lock = 0
    /\ \E tenant \in Tenants, ch \in SegmentChannels, sched \in SchedInputs :
         LET l == [tenant |-> tenant, channel |-> Lower(ch), scheduled_at |-> sched]
             r == SegmentLoop(db, Contacts, l, clock, SegmentOut0)
         IN  IF SegmentOwner(1) # tenant
             THEN /\ proc' = [proc EXCEPT ![p] =
                       [pc |-> "done", op |-> "segment", res |-> "404", out |-> SegmentOut0]]
                  /\ UNCHANGED <<db, tx, lock>>
             ELSE /\ Fits(r.T)
                  /\ Commit(r.T)
                  /\ proc' = [proc EXCEPT ![p] =
                       [pc |-> "done", op |-> "segment", res |-> "ok", out |-> r.out]]
    /\ UNCHANGED <<clock, sendCount>>

-----------------------------------------------------------------------------
(* process_once (jobs/worker_deliveries.py), called by the cron script,    *)
(* the worker loop and POST /jobs/process-deliveries                       *)

Batches == {1, 50}

RECURSIVE Snapshots(_, _)
Snapshots(ds, ids) ==
    IF ids = <<>> THEN <<>>
    ELSE <<Snapshot(ds[Head(ids)])>> \o Snapshots(ds, Tail(ids))

Counters0 == [processed |-> 0, sent |-> 0, retried |-> 0, failed |-> 0]

\* lines 44-63: now, the counters, the SELECT of the eligible rows
WorkerStart(p) ==
    /\ proc[p].pc = "idle"
    /\ \E batch \in Batches :
         LET rows == Snapshots(db.deliveries, Limit(Select(db.deliveries, 1, clock), batch))
         IN  proc' = [proc EXCEPT ![p] =
               IF rows = <<>>
               THEN [pc |-> "done", op |-> "worker", out |-> Counters0]
               ELSE [pc |-> "w_claim", rows |-> rows, i |-> 1, now |-> clock,
                     out |-> Counters0]]
    /\ UNCHANGED <<clock, db, tx, lock, sendCount>>

\* defect: every attempt is charged to the tenant's daily counter
WorkerClaimCharging(p) ==
    /\ proc[p].pc = "w_claim"
    /\ CanWrite(p)
    /\ LET r == proc[p].rows[proc[p].i]
           row == tx.deliveries[r.id]
       IN  tx' = increment_daily_send(
                   [tx EXCEPT !.deliveries[r.id] = ClaimRow(@, r.attempts + 1)],
                   row.tenant_id, row.channel, 1, clock)
    /\ lock' = p
    /\ proc' = [proc EXCEPT ![p].pc = "w_resolve"]
    /\ UNCHANGED <<clock, db, sendCount>>

\* lines 66-83: next_attempt = attempts + 1, mark the row as sending; the
\* first UPDATE of the batch takes the write lock
WorkerClaim(p) ==
    /\ proc[p].pc = "w_claim"
    /\ CanWrite(p)
    /\ LET r == proc[p].rows[proc[p].i]
       IN  tx' = [tx EXCEPT !.deliveries[r.id] = ClaimRow(@, r.attempts + 1)]
    /\ lock' = p
    /\ proc' = [proc EXCEPT ![p].pc = "w_resolve"]
    /\ UNCHANGED <<clock, db, sendCount>>

\* the counter the branch of lines 85-117 raises
Outcome(r) ==
    IF _should_fail(r.channel, r.to_addr, r.payload_json)
    THEN IF r.attempts + 1 >= r.max_attempts THEN "failed" ELSE "retried"
    ELSE "sent"

\* lines 85-119: the simulated send and the UPDATE of its outcome
\* process_once with the resolving UPDATE written without its WHERE id = ?
WorkerResolveEveryRow(p) ==
    /\ proc[p].pc = "w_resolve"
    /\ lock = p
    /\ LET l == proc[p]
           r == l.rows[l.i]
           o == Outcome(r)
       IN  /\ tx' = [tx EXCEPT !.deliveries =
                       [i \in DOMAIN @ |-> ResolveRow(@[i], r, r.attempts + 1, l.now)]]
           /\ sendCount' = IF o = "sent" THEN [sendCount EXCEPT ![r.id] = @ + 1]
                           ELSE sendCount
           /\ proc' = [proc EXCEPT
                 ![p].out = [@ EXCEPT ![o] = @ + 1, !.processed = @ + 1],
                 ![p].i = @ + 1,
                 ![p].pc = IF l.i = Len(l.rows) THEN "w_commit" ELSE "w_claim"]
    /\ UNCHANGED <<clock, db, lock>>

WorkerResolve(p) ==
    /\ proc[p].pc = "w_resolve"
    /\ lock = p
    /\ LET l == proc[p]
           r == l.rows[l.i]
           o == Outcome(r)
       IN  /\ tx' = [tx EXCEPT !.deliveries[r.id] =
                       ResolveRow(@, r, r.attempts + 1, l.now)]
           /\ sendCount' = IF o = "sent" THEN [sendCount EXCEPT ![r.id] = @ + 1]
                           ELSE sendCount
           /\ proc' = [proc EXCEPT
                 ![p].out = [@ EXCEPT ![o] = @ + 1, !.processed = @ + 1],
                 ![p].i = @ + 1,
                 ![p].pc = IF l.i = Len(l.rows) THEN "w_commit" ELSE "w_claim"]
    /\ UNCHANGED <<clock, db, lock>>

\* line 121 and the exit of get_db: commit, return the counters
\* process_once storing at its end only the row it resolved last
WorkerCommitLastRow(p) ==
    /\ proc[p].pc = "w_commit"
    /\ lock = p
    /\ LET id == proc[p].rows[Len(proc[p].rows)].id
       IN  Commit([db EXCEPT !.deliveries[id] = tx.deliveries[id]])
    /\ proc' = [proc EXCEPT ![p] = [pc |-> "done", op |-> "worker", out |-> proc[p].out]]
    /\ UNCHANGED <<clock, sendCount>>

WorkerCommit(p) ==
    /\ proc[p].pc = "w_commit"
    /\ lock = p
    /\ Commit(tx)
    /\ proc' = [proc EXCEPT ![p] = [pc |-> "done", op |-> "worker", out |-> proc[p].out]]
    /\ UNCHANGED <<clock, sendCount>>

-----------------------------------------------------------------------------
(* The promoter of scheduled ads: jobs/cron_run_due.main and               *)
(* POST /jobs/run-due (main.run_due_deliveries), the same statements       *)

RECURSIVE SelectAds(_, _)
\* SELECT ... FROM ads WHERE status = 'scheduled' AND scheduled_at IS NOT NULL
SelectAds(ads, i) ==
    IF i > Len(ads) THEN <<>>
    ELSE IF ads[i].status = "scheduled" /\ ~ads[i].scheduled_at.null
         THEN <<[id |-> ads[i].id, tenant_id |-> ads[i].tenant_id,
                 channel |-> ads[i].channel, scheduled_at |-> ads[i].scheduled_at]>>
              \o SelectAds(ads, i + 1)
         ELSE SelectAds(ads, i + 1)

\* cron_run_due lines 27-40: now and the SELECT of the scheduled ads
PromoterStart(p) ==
    /\ proc[p].pc = "idle"
    /\ proc' = [proc EXCEPT ![p] =
         [pc |-> "run_due", rows |-> SelectAds(db.ads, 1), now |-> clock]]
    /\ UNCHANGED <<clock, db, tx, lock, sendCount>>

RECURSIVE PromoterLoop(_, _, _, _, _)
\* cron_run_due lines 42-72 at time t: the loop over the selected rows.
\* fromisoformat gives a naive datetime for a text without offset, and
\* sched <= now on a naive and an aware datetime raises TypeError, which
\* nothing in the loop catches
PromoterLoop(T, rows, now, t, sent) ==
    IF rows = <<>> THEN [T |-> T, sent |-> sent, raised |-> FALSE]
    ELSE LET r == Head(rows)
             chk == check_daily_send_or_raise(T, r.tenant_id, 1, t)
             Tfail == [chk.T EXCEPT !.notes = Append(@, [ad_id |-> r.id, result |-> "fail"])]
             Tok == increment_daily_send(
                      [chk.T EXCEPT !.ads[r.id].status = "sent",
                                    !.notes = Append(@, [ad_id |-> r.id, result |-> "ok"])],
                      r.tenant_id, r.channel, 1, t)
         IN  IF Naive(r.scheduled_at)
             THEN [T |-> T, sent |-> sent, raised |-> TRUE]
             ELSE IF ~(Instant(r.scheduled_at) <= now)
             THEN PromoterLoop(T, Tail(rows), now, t, sent)
             ELSE IF chk.raises
             THEN PromoterLoop(Tfail, Tail(rows), now, t, sent)
             ELSE PromoterLoop(Tok, Tail(rows), now, t, sent + 1)

\* cron_run_due lines 42-74 and the exit of get_db: commit, or rollback
\* when the loop has raised
PromoterCommit(p) ==
    /\ proc[p].pc = "run_due"
    /\ lock = 0
    /\ LET r == PromoterLoop(db, proc[p].rows, proc[p].now, clock, 0)
       IN  IF r.raised
           THEN /\ UNCHANGED <<db, tx, lock>>
                /\ proc' = [proc EXCEPT ![p] =
                     [pc |-> "done", op |-> "promoter", sent |-> 0, raised |-> TRUE]]
           ELSE /\ Fits(r.T)
                /\ Commit(r.T)
                /\ proc' = [proc EXCEPT ![p] =
                     [pc |-> "done", op |-> "promoter", sent |-> r.sent, raised |-> FALSE]]
    /\ UNCHANGED <<clock, sendCount>>

-----------------------------------------------------------------------------
(* Billing (main.billing_cancel, main.stripe_webhook)                      *)

\* the plan and status a subscription event carries
PlanChanges == {[plan |-> "enterprise", status |-> "active"],
                [plan |-> "enterprise", status |-> "canceled"]}

\* saas.set_plan: the tenant's row of tenant_plans takes the plan and the
\* status
set_plan(T, tenant, plan, status) ==
    [T EXCEPT !.plans = (tenant :> [plan |-> plan, status |-> status]) @@ @]

\* main.py lines 611-632: a subscription event of the tenant sets its plan
stripe_webhook ==
    /\ lock = 0
    /\ \E tenant \in Tenants, pl \in PlanChanges :
         LET T == set_plan(db, tenant, pl.plan, pl.status)
         IN  T # db /\ Commit(T)
    /\ UNCHANGED <<clock, proc, sendCount>>

-----------------------------------------------------------------------------
(* Time *)

Tick ==
    /\ clock + TickLen <= MaxClock
    /\ clock' = clock + TickLen
    /\ UNCHANGED <<db, tx, lock, proc, sendCount>>

-----------------------------------------------------------------------------

\* the queue: enqueue, segment-send and process_once
Next ==
    \/ Tick
    \/ \E p \in Procs :
         \/ enqueue_delivery(p)
         \/ automation_segment_send(p)
         \/ WorkerStart(p)
         \/ WorkerClaim(p)
         \/ WorkerResolve(p)
         \/ WorkerCommit(p)
         \/ Return(p)

Spec == Init /\ [][Next]_vars

\* process_once is invoked again and again and every started invocation
\* runs to its end (a connection that waits for the write lock gets it),
\* handlers return, and time advances
Fairness ==
    /\ WF_vars(Tick)
    /\ SF_vars(\E p \in Procs : WorkerStart(p))
    /\ \A p \in Procs :
         /\ SF_vars(WorkerClaim(p))
         /\ WF_vars(WorkerResolve(p))
         /\ WF_vars(WorkerCommit(p))
         /\ WF_vars(Return(p))

\* enqueue and process_once
NextQueue ==
    \/ Tick
    \/ \E p \in Procs :
         \/ enqueue_delivery(p)
         \/ WorkerStart(p)
         \/ WorkerClaim(p)
         \/ WorkerResolve(p)
         \/ WorkerCommit(p)
         \/ Return(p)

\* the store in use, a failing row with the lowest id in the queue
InitQueue == Init /\ Len(db.deliveries) > 0

LiveSpec == InitQueue /\ [][NextQueue]_vars /\ Fairness

\* the admissions against the daily quota: enqueue, segment-send, promoter
NextAdmit ==
    \/ Tick
    \/ \E p \in Procs :
         \/ enqueue_delivery(p)
         \/ automation_segment_send(p)
         \/ PromoterStart(p)
         \/ PromoterCommit(p)
         \/ Return(p)

AdmitSpec == Init /\ [][NextAdmit]_vars

\* enqueue while subscriptions change
NextPlans ==
    \/ Tick
    \/ stripe_webhook
    \/ \E p \in Procs :
         \/ enqueue_delivery(p)
         \/ Return(p)

PlanSpec == Init /\ [][NextPlans]_vars

-----------------------------------------------------------------------------
(* Properties *)

Rows(T) == 1..Len(T.deliveries)

Terminal == {"sent", "failed"}

Finished(p, op) == proc[p].pc = "done" /\ proc[p].op = op

\* p flips a row to 'sending' in this step
Claims(p) == proc[p].pc = "w_claim" /\ proc'[p].pc = "w_resolve"

\* the row p is flipping, as its connection sees it before the UPDATE
ClaimedRow(p) == tx.deliveries[proc[p].rows[proc[p].i].id]

\* p returns from enqueue_delivery in this step
Enqueues(p) == proc[p].pc = "idle" /\ proc'[p].pc = "done" /\ proc'[p].op = "enqueue"

\* C1: a call of enqueue_delivery whose (tenant, idempotency key) already
\* had a row when the call arrived succeeds and returns the id of that row.
C1_IdempotentEnqueue ==
    \A p \in Procs :
        Finished(p, "enqueue") /\ proc[p].prior # 0
        => proc[p].res = "ok" /\ proc[p].id = proc[p].prior

\* C2: the eligibility predicate holds again at the moment of the status
\* flip: whenever an invocation sets a row to 'sending', that row still
\* satisfies the WHERE clause of the invocation's SELECT, so a row another
\* invocation has claimed or resolved meanwhile is not claimed again.
C2_ClaimRechecksEligibility ==
    [][\A p \in Procs : Claims(p) => Eligible(ClaimedRow(p), proc[p].now)]_vars

\* C3: once a row is 'sent' or 'failed', no step changes any of its fields,
\* and no step sends it again.
C3_TerminalAbsorbing ==
    [][\A i \in Rows(tx) :
         tx.deliveries[i].status \in Terminal
         => tx'.deliveries[i] = tx.deliveries[i] /\ sendCount'[i] = sendCount[i]]_vars

\* C4: every row of deliveries, committed or in a running transaction, has
\* attempts <= max_attempts.
C4_AttemptsBounded ==
    /\ \A i \in Rows(tx) : tx.deliveries[i].attempts <= tx.deliveries[i].max_attempts
    /\ \A i \in Rows(db) : db.deliveries[i].attempts <= db.deliveries[i].max_attempts

\* a row has used its last attempt and is dead-lettered
C4_Witness ==
    \E i \in Rows(db) :
        /\ db.deliveries[i].status = "failed"
        /\ db.deliveries[i].attempts = db.deliveries[i].max_attempts

\* C5: a row becomes 'failed' only with attempts = max_attempts, and a row
\* that is 'failed' never becomes selectable again.
C5_DeadLetterBoundary ==
    [][/\ \A i \in Rows(tx) :
            tx.deliveries[i].status # "failed" /\ tx'.deliveries[i].status = "failed"
            => tx'.deliveries[i].attempts = tx'.deliveries[i].max_attempts
       /\ \A i \in Rows(db) :
            db.deliveries[i].status = "failed"
            => db'.deliveries[i].status \notin {"queued", "retrying"}]_vars

\* C6: process_once sets a row to 'sending' only if the row's status is
\* 'queued' or 'retrying' and its next_attempt_at is null or an instant not
\* later than the invocation's now.
C6_EligibilityGating ==
    [][\A p \in Procs :
         Claims(p)
         => /\ ClaimedRow(p).status \in {"queued", "retrying"}
            /\ \/ ClaimedRow(p).next_attempt_at.null
               \/ Instant(ClaimedRow(p).next_attempt_at) <= proc[p].now]_vars

\* the row with id i is committed and satisfies the worker's WHERE clause
\* at the present instant
Due(i) ==
    /\ i \in Rows(db)
    /\ db.deliveries[i].status \in {"queued", "retrying"}
    /\ \/ db.deliveries[i].next_attempt_at.null
       \/ TextLE(db.deliveries[i].next_attempt_at, now_iso(clock))

C8_NoOverAdmission ==
    \A k \in DOMAIN tx.usage :
        LET pl == get_plan(tx, k[1])
        IN  pl.status # "canceled" /\ _get_limits(pl.plan) # NoLimit
            => tx.usage[k].sends_total <= _get_limits(pl.plan)

\* a tenant-day stands at its limit and a call has been turned away
C8_Witness ==
    /\ \E k \in DOMAIN db.usage : db.usage[k].sends_total = FreeDailyLimit
    /\ \E p \in Procs : Finished(p, "enqueue") /\ proc[p].res = "402"

\* the tenant's plan row, free/active when it has none
PlanOf(T, tenant) ==
    IF tenant \in DOMAIN T.plans THEN T.plans[tenant]
    ELSE [plan |-> "free", status |-> "active"]

\* the tenant's sends_total of the day of t, 0 when it has no row
SendsToday(T, tenant, t) ==
    IF <<tenant, _utc_day_key(t)>> \in DOMAIN T.usage
    THEN T.usage[<<tenant, _utc_day_key(t)>>].sends_total
    ELSE 0

\* C9: check_daily_send_or_raise raises exactly when the plan status is
\* 'canceled', or the plan's daily limit is finite and today's sends_total
\* plus the amount exceeds it.
C9_AdmissionPredicate ==
    \A tenant \in Tenants, amount \in 1..2 :
        LET pl == PlanOf(tx, tenant)
            limit == LIMITS_BY_PLAN[pl.plan]
        IN  check_daily_send_or_raise(tx, tenant, amount, clock).raises
            <=> \/ pl.status = "canceled"
                \/ limit # NoLimit /\ SendsToday(tx, tenant, clock) + amount > limit

\* a tenant on the unlimited plan, canceled, has been turned away, while
\* the other tenant is on the unlimited plan and active
C9_Witness ==
    \E p \in Procs :
        /\ Finished(p, "enqueue") /\ proc[p].res = "402"
        /\ PlanOf(db, proc[p].tenant) = [plan |-> "enterprise", status |-> "canceled"]
        /\ \E other \in Tenants :
             PlanOf(db, other) = [plan |-> "enterprise", status |-> "active"]

\* C10: a call of enqueue_delivery that ends in 402 or 404 leaves the
\* committed deliveries and the committed daily counters as they were.
C10_FailedEnqueueNoPartialState ==
    [][\A p \in Procs :
         Enqueues(p) /\ proc'[p].res \in {"402", "404"}
         => db'.deliveries = db.deliveries /\ db'.usage = db.usage]_vars

\* one call has ended in 402 and another in 404
C10_Witness ==
    \E p, q \in Procs :
        /\ Finished(p, "enqueue") /\ proc[p].res = "402"
        /\ Finished(q, "enqueue") /\ proc[q].res = "404"

\* C11: every row enqueue_delivery creates starts with status 'queued',
\* attempts = 0 and next_attempt_at null.
C11_EnqueueInitialFields ==
    [][\A p \in Procs :
         Enqueues(p) /\ Len(db'.deliveries) > Len(db.deliveries)
         => LET row == db'.deliveries[Len(db'.deliveries)]
            IN  /\ row.status = "queued"
                /\ row.attempts = 0
                /\ row.next_attempt_at.null]_vars

\* no two rows of T carry the same (tenant_id, idempotency_key)
UniqueKeys(T) ==
    \A i, j \in Rows(T) :
        i # j => \/ T.deliveries[i].tenant_id # T.deliveries[j].tenant_id
                 \/ T.deliveries[i].idempotency_key # T.deliveries[j].idempotency_key

\* C12: no two delivery rows, committed or in a running transaction, have
\* the same (tenant_id, idempotency_key).
C12_UniqueTenantKey == UniqueKeys(db) /\ UniqueKeys(tx)

\* a call has collided with an existing key and got the existing row, and
\* the table holds two rows
C12_Witness ==
    /\ Len(db.deliveries) = 2
    /\ \E p \in Procs :
         /\ Finished(p, "enqueue") /\ proc[p].prior # 0
         /\ proc[p].res = "ok" /\ proc[p].id = proc[p].prior


\* process p writes the outcome of its claimed row
Resolves(p) == proc[p].pc = "w_resolve" /\ proc'[p].pc # "w_resolve"

\* C13: when a retryable failure of a row follows a retryable failure of the
\* same row, the next_attempt_at it writes is strictly later than the one
\* the previous failure wrote.
C13_BackoffMonotone ==
    [][\A p \in Procs :
         Resolves(p)
         => LET id == proc[p].rows[proc[p].i].id
                old == tx.deliveries[id]
                new == tx'.deliveries[id]
            IN  (/\ new.status = "retrying"
                 /\ old.last_error = "Simulated failure"
                 /\ ~old.next_attempt_at.null)
                => Instant(new.next_attempt_at) > Instant(old.next_attempt_at)]_vars


-----------------------------------------------------------------------------
(* The backoff: _backoff_seconds applied to attempt counts, and            *)
(* process_once over one failing row                                       *)

\* a failing row of tenant 1 that has failed a times and is due at StartClock
FailingRow(a) ==
    IF a = 0
    THEN NewDelivery(1, 1, 0, "sms", "user@force-FAIL.test", "{}", "k0", now_iso(StartClock))
    ELSE OldRow(a)

\* a call _backoff_seconds(attempt)
Backoff(p) ==
    /\ proc[p].pc = "idle"
    /\ \E a \in 1..MaxAttempt :
         proc' = [proc EXCEPT ![p] =
           [pc |-> "done", op |-> "backoff", attempt |-> a,
            seconds |-> _backoff_seconds(a)]]
    /\ UNCHANGED <<clock, db, tx, lock, sendCount>>

\* the queue holds one failing row with retries left
InitBackoff ==
    /\ clock = StartClock
    /\ db \in {[UsedTables(a) EXCEPT !.deliveries = <<FailingRow(a)>>] :
                 a \in 0..(DefaultMaxAttempts - 2)}
    /\ tx = db
    /\ lock = 0
    /\ proc = [p \in Procs |-> Idle]
    /\ sendCount = [i \in 1..MaxDeliveries |-> 0]

NextBackoff ==
    \/ Tick
    \/ \E p \in Procs :
         \/ Backoff(p)
         \/ WorkerStart(p)
         \/ WorkerClaim(p)
         \/ WorkerResolve(p)
         \/ WorkerCommit(p)
         \/ Return(p)

BackoffSpec == InitBackoff /\ [][NextBackoff]_vars

\* the delays the specification lists, 3600 from the ninth attempt on
ListedDelay(a) ==
    IF a <= 9 THEN <<15, 30, 60, 120, 240, 480, 960, 1920, 3600>>[a] ELSE 3600

\* process p holds the write lock and has written the outcome of a row
Resolved(p) ==
    /\ lock = p
    /\ proc[p].pc \in {"w_claim", "w_commit"}
    /\ proc[p].i > 1

\* C14: for a >= 1, _backoff_seconds(a) = min(15 * 2^(a-1), 3600), that is
\* 15, 30, 60, 120, 240, 480, 960, 1920, 3600, 3600, ...; it never exceeds
\* 3600 and is non-decreasing in a; a retryable failure sets next_attempt_at
\* to now plus the delay of the post-increment attempt count, 15 seconds
\* for the first retry.
C14_BackoffValue ==
    /\ \A p \in Procs :
         Finished(p, "backoff")
         => /\ proc[p].seconds = Min(15 * 2^(proc[p].attempt - 1), 3600)
            /\ proc[p].seconds = ListedDelay(proc[p].attempt)
            /\ proc[p].seconds <= 3600
    /\ \A p, q \in Procs :
         Finished(p, "backoff") /\ Finished(q, "backoff")
           /\ proc[p].attempt <= proc[q].attempt
         => proc[p].seconds <= proc[q].seconds
    /\ \A p \in Procs :
         Resolved(p)
         => LET r == proc[p].rows[proc[p].i - 1]
                row == tx.deliveries[r.id]
            IN  row.status = "retrying"
                => /\ row.attempts = r.attempts + 1
                   /\ ~row.next_attempt_at.null
                   /\ Instant(row.next_attempt_at)
                        = proc[p].now + ListedDelay(row.attempts)
                   /\ r.attempts = 0
                      => Instant(row.next_attempt_at) = proc[p].now + 15

\* the cap is applied to one call while a first retry has been scheduled
C14_Witness ==
    \E p, q \in Procs :
      /\ Finished(p, "backoff") /\ proc[p].attempt > 9 /\ proc[p].seconds = 3600
      /\ Resolved(q)
      /\ LET r == proc[q].rows[proc[q].i - 1]
         IN  /\ r.attempts = 0
             /\ tx.deliveries[r.id].status = "retrying"
             /\ tx.deliveries[r.id].attempts = 1


-----------------------------------------------------------------------------
(* GET /deliveries (main.list_deliveries_queue)                            *)

\* the value of an absent status or campaign_id query parameter
NoFilter == "NONE"

RECURSIVE ListDesc(_, _, _, _, _)
\* the rows of ds from index i down that satisfy the WHERE clause, ORDER BY
\* id DESC
ListDesc(ds, i, tenant, status, campaign_id) ==
    IF i < 1 THEN <<>>
    ELSE IF /\ ds[i].tenant_id = tenant
            /\ (status \notin {NoFilter, ""} => ds[i].status = status)
            /\ (campaign_id # NoFilter => ds[i].campaign_id = campaign_id)
         THEN <<ds[i]>> \o ListDesc(ds, i - 1, tenant, status, campaign_id)
         ELSE ListDesc(ds, i - 1, tenant, status, campaign_id)

\* the rows the handler returns to a caller of the tenant
list_deliveries_queue(T, tenant, status, campaign_id, limit, offset) ==
    LET tenant_id == IF tenant <= 0 THEN 1 ELSE tenant
        all == ListDesc(T.deliveries, Len(T.deliveries), tenant_id, status, campaign_id)
    IN  IF offset >= Len(all) THEN <<>>
        ELSE SubSeq(all, offset + 1, Min(Len(all), offset + limit))

\* the ids of the rows GET /deliveries?status=... returns to the tenant
Listed(T, tenant, status) ==
    LET l == list_deliveries_queue(T, tenant, status, NoFilter, DefaultListLimit, 0)
    IN  {l[k].id : k \in 1..Len(l)}

\* the row carries one of the three failure markers
HasFailMarker(row) ==
    \/ ContainsFail(Lower(row.to_addr))
    \/ ForceFail(row.payload_json)
    \/ row.channel = "fail"

\* C15: a row with a failure marker (to_addr containing 'fail' in any case,
\* payload force_fail = true, channel 'fail') fails on every attempt; once
\* its attempts are exhausted it has status 'failed', attempts =
\* max_attempts and last_error set and stays listed by
\* list_deliveries_queue(status='failed'); a row without a marker becomes
\* 'sent' on its first attempt with attempts = 1.
C15_DeterministicOutcome ==
    [][/\ \A p \in Procs :
            Resolves(p)
            => LET id == proc[p].rows[proc[p].i].id
                   new == tx'.deliveries[id]
               IN  IF HasFailMarker(new)
                   THEN /\ new.status \in {"retrying", "failed"}
                        /\ new.last_error # "NULL"
                        /\ new.status = "failed" => new.attempts = new.max_attempts
                   ELSE new.status = "sent" /\ new.attempts = 1
       /\ \A i \in Rows(db) :
            LET row == db.deliveries[i]
            IN  HasFailMarker(row) /\ i \in Listed(db, row.tenant_id, "failed")
                => /\ i \in Listed(db', row.tenant_id, "failed")
                   /\ db'.deliveries[i].attempts = row.max_attempts
                   /\ db'.deliveries[i].last_error # "NULL"]_vars


\* the tenant's sends_total in the counter row of a day, 0 when it has none
SendsOn(T, tenant, day) ==
    IF <<tenant, day>> \in DOMAIN T.usage THEN T.usage[<<tenant, day>>].sends_total
    ELSE 0

\* C16: the daily quota is per UTC day.  A call for a tenant with a finite
\* limit is turned away exactly when the counter row of the current UTC day
\* plus 1 exceeds the limit, whatever the rows of earlier days hold, and no
\* step changes the counter row of another day than the current one.
C16_QuotaPerUtcDay ==
    [][/\ \A p \in Procs :
            Enqueues(p) /\ proc'[p].res # "404"
            => LET tenant == proc'[p].tenant
                   pl == PlanOf(db, tenant)
                   limit == LIMITS_BY_PLAN[pl.plan]
               IN  pl.status # "canceled" /\ limit # NoLimit
                   => (proc'[p].res = "402"
                       <=> SendsOn(db, tenant, clock \div 86400) + 1 > limit)
       /\ \A k \in DOMAIN db.usage :
            k[2] # clock' \div 86400
            => k \in DOMAIN db'.usage /\ db'.usage[k] = db.usage[k]]_vars

\* tenant 1 was turned away on the day it reached its limit and has been
\* admitted on the next day, the row of the first day still at the limit
C16_Witness ==
    /\ clock \div 86400 = 1
    /\ SendsOn(db, 1, 0) = 200
    /\ <<1, 1>> \in DOMAIN db.usage
    /\ \E p, q \in Procs :
         /\ Finished(p, "enqueue") /\ proc[p].tenant = 1 /\ proc[p].res = "402"
         /\ Finished(q, "enqueue") /\ proc[q].tenant = 1 /\ proc[q].res = "ok"


-----------------------------------------------------------------------------
(* The promoter over the ads the tenants have scheduled                    *)

\* the scheduled_at texts POST /ads/{ad_id}/schedule has stored for ad 2:
\* due, due and without UTC offset (_validate_iso8601 accepts it), or one
\* tick ahead
ScheduleInputs ==
    {Stamp(StartClock, "+00:00"), Stamp(StartClock, ""),
     Stamp(StartClock + TickLen, "+00:00")}

\* ad 1 of tenant 1 is scheduled and due at StartClock, ad 2 of tenant 2 is
\* scheduled, ad 3 of tenant 2 is a draft with a due scheduled_at
PromoterAds(at) ==
    <<[id |-> 1, tenant_id |-> 1, channel |-> "X", status |-> "scheduled",
       scheduled_at |-> Stamp(StartClock, "Z")],
      [id |-> 2, tenant_id |-> 2, channel |-> "email", status |-> "scheduled",
       scheduled_at |-> at],
      [id |-> 3, tenant_id |-> 2, channel |-> "whatsapp", status |-> "draft",
       scheduled_at |-> Stamp(StartClock, "+00:00")]>>

\* a new installation, or tenant 1 with one send left today
InitPromoter ==
    /\ clock = StartClock
    /\ db \in {[T EXCEPT !.ads = PromoterAds(at)] :
                 T \in {FreshTables} \cup {UsedTables(a) : a \in OldAttempts},
                 at \in ScheduleInputs}
    /\ tx = db
    /\ lock = 0
    /\ proc = [p \in Procs |-> Idle]
    /\ sendCount = [i \in 1..MaxDeliveries |-> 0]

\* the promoter invocations and the enqueues that use up the quota
NextPromoter ==
    \/ Tick
    \/ \E p \in Procs :
         \/ enqueue_delivery(p)
         \/ PromoterStart(p)
         \/ PromoterCommit(p)
         \/ Return(p)

PromoterSpec == InitPromoter /\ [][NextPromoter]_vars

\* an invocation of the promoter by p ends in this step
Promotes(p) == proc[p].pc = "run_due" /\ proc'[p].pc = "done"

\* the number of ad_deliveries notes of T for the ad with the result
NoteCount(T, ad, result) ==
    Cardinality({k \in 1..Len(T.notes) :
                   T.notes[k].ad_id = ad /\ T.notes[k].result = result})

\* the instant a scheduled_at text denotes, a text without offset read as UTC
ScheduledInstant(ts) == IF ts.sfx = "" THEN ts.loc ELSE ts.loc - OffsetOf(ts.sfx)

\* the ad is scheduled and its scheduled_at has passed at time t
DueAd(ad, t) ==
    ad.status = "scheduled" /\ ~ad.scheduled_at.null /\ ScheduledInstant(ad.scheduled_at) <= t

\* the tenant's daily limit is finite and today's counter has reached it
AtLimit(T, tenant, t) ==
    LET limit == LIMITS_BY_PLAN[PlanOf(T, tenant).plan]
    IN  limit # NoLimit /\ SendsOn(T, tenant, t \div 86400) + 1 > limit

\* the ids of the ads a promoter invocation on T selects
Selected(T) ==
    LET rows == SelectAds(T.ads, 1) IN {rows[k].id : k \in 1..Len(rows)}

\* C17: when an invocation of the promoter meets a due scheduled ad whose
\* tenant is at its daily limit, it records one 'fail' note for the ad, no
\* 'ok' note, leaves the ad 'scheduled' and the tenant's counters as they
\* were, goes on to promote the other due ads it selected, and the next
\* invocation selects the ad again.
C17_PromoterRejection ==
    [][\A p \in Procs :
         Promotes(p)
         => \A k \in 1..Len(proc[p].rows) :
              LET r == proc[p].rows[k]
              IN  DueAd(db.ads[r.id], proc[p].now) /\ AtLimit(db, r.tenant_id, clock)
                  => /\ NoteCount(db', r.id, "fail") = NoteCount(db, r.id, "fail") + 1
                     /\ NoteCount(db', r.id, "ok") = NoteCount(db, r.id, "ok")
                     /\ db'.ads[r.id].status = "scheduled"
                     /\ \A d \in DOMAIN db.usage :
                          d[1] = r.tenant_id => db'.usage[d] = db.usage[d]
                     /\ \A j \in 1..Len(proc[p].rows) :
                          LET o == proc[p].rows[j]
                          IN  /\ DueAd(db.ads[o.id], proc[p].now)
                              /\ ~AtLimit(db, o.tenant_id, clock)
                              => db'.ads[o.id].status = "sent"
                     /\ r.id \in Selected(db')]_vars


\* the ads of the tenant that get an 'ok' note in this step
Promoted(tenant) ==
    {a \in 1..Len(db.ads) :
       db.ads[a].tenant_id = tenant /\ NoteCount(db', a, "ok") > NoteCount(db, a, "ok")}

\* C18: an invocation of the promoter sets every ad that is 'scheduled' with
\* scheduled_at <= now and passes the quota check to 'sent', records one
\* 'ok' note for it and adds 1 to its tenant's daily counter; it leaves an
\* ad with another status or a scheduled_at in the future, and the notes of
\* such an ad, unchanged.
C18_PromoterAcceptance ==
    [][\A p \in Procs :
         Promotes(p)
         => /\ \A a \in 1..Len(db.ads) :
                 IF DueAd(db.ads[a], proc[p].now)
                 THEN ~AtLimit(db, db.ads[a].tenant_id, clock)
                      => /\ db'.ads[a].status = "sent"
                         /\ NoteCount(db', a, "ok") = NoteCount(db, a, "ok") + 1
                 ELSE /\ db'.ads[a] = db.ads[a]
                      /\ NoteCount(db', a, "ok") = NoteCount(db, a, "ok")
                      /\ NoteCount(db', a, "fail") = NoteCount(db, a, "fail")
            /\ \A tenant \in Tenants :
                 SendsOn(db', tenant, clock \div 86400)
                   = SendsOn(db, tenant, clock \div 86400) + Cardinality(Promoted(tenant))]_vars


\* the days the clock of the model reaches
Days == 0..(MaxClock \div 86400)

RECURSIVE SumOver(_, _)
\* the sum of f over the finite set S of its domain
SumOver(f, S) ==
    IF S = {} THEN 0
    ELSE LET x == CHOOSE y \in S : TRUE IN f[x] + SumOver(f, S \ {x})

\* what the counters of the channel column of tenant 1's 'X' ad hold over
\* all days; no other operation of the specification sends on that channel
SendsX(T) ==
    SumOver([d \in Days |->
               IF <<1, d>> \in DOMAIN T.usage THEN T.usage[<<1, d>>].sends_x ELSE 0],
            Days)

\* C19: whatever the sequence and interleaving of promoter invocations, an
\* ad has at most one 'ok' note and has caused at most one increment of the
\* daily counter.
C19_PromoterIdempotent ==
    /\ \A a \in 1..Len(db.ads) : NoteCount(db, a, "ok") <= 1
    /\ SendsX(db) <= 1


\* what the tables hold for a tenant: its delivery rows, its plan row and
\* its counter rows
TenantData(T, tenant) ==
    [deliveries |-> {T.deliveries[i] : i \in {j \in Rows(T) : T.deliveries[j].tenant_id = tenant}},
     plans |-> IF tenant \in DOMAIN T.plans THEN {T.plans[tenant]} ELSE {},
     usage |-> {<<d, T.usage[d]>> : d \in {e \in DOMAIN T.usage : e[1] = tenant}}]

\* the status filters a caller of GET /deliveries sends
StatusFilters == {NoFilter, "queued", "sending", "retrying", "sent", "failed"}

\* GET /deliveries for the tenant returns rows of the tenant only
ListsOwnRows(T) ==
    \A tenant \in Tenants, status \in StatusFilters :
      LET l == list_deliveries_queue(T, tenant, status, NoFilter, DefaultListLimit, 0)
      IN  \A k \in 1..Len(l) : l[k].tenant_id = tenant

\* C20: an enqueue by a tenant changes no delivery row, plan row or quota
\* counter of another tenant; a successful enqueue returns a row of the
\* calling tenant, so that a key two tenants use yields two rows; and
\* list_deliveries_queue for a tenant returns only rows of that tenant.
C20_TenantIsolation ==
    [][/\ \A p \in Procs :
            Enqueues(p)
            => /\ \A other \in Tenants \ {proc'[p].tenant} :
                    TenantData(db', other) = TenantData(db, other)
               /\ proc'[p].res = "ok"
                  => db'.deliveries[proc'[p].id].tenant_id = proc'[p].tenant
       /\ ListsOwnRows(db) /\ ListsOwnRows(db')]_vars

\* both tenants have enqueued with the key 'k1': two rows, and the call of
\* tenant 2 returned its own
C20_Witness ==
    /\ \E i, j \in Rows(db) :
         /\ db.deliveries[i].tenant_id = 1 /\ db.deliveries[j].tenant_id = 2
         /\ db.deliveries[i].idempotency_key = db.deliveries[j].idempotency_key
    /\ \E p \in Procs :
         /\ Finished(p, "enqueue") /\ proc[p].tenant = 2 /\ proc[p].res = "ok"
         /\ db.deliveries[proc[p].id].tenant_id = 2
         /\ db.deliveries[proc[p].id].idempotency_key = "k1"
    /\ Len(list_deliveries_queue(db, 1, NoFilter, NoFilter, DefaultListLimit, 0)) = 1


\* C21: attempts are never under-counted.  Every claim step adds 1 to the
\* stored attempts of its row and sets it 'sending' before the outcome is
\* evaluated, no other step lowers the attempts of a row, and the attempts
\* of a row are at least the number of sends performed for it.
C21_AttemptsNotUndercounted ==
    [][/\ \A p \in Procs :
            Claims(p)
            => LET id == proc[p].rows[proc[p].i].id
               IN  /\ tx'.deliveries[id].attempts = tx.deliveries[id].attempts + 1
                   /\ tx'.deliveries[id].status = "sending"
       /\ \A i \in Rows(tx) :
            /\ tx'.deliveries[i].attempts >= tx.deliveries[i].attempts
            /\ tx'.deliveries[i].attempts >= sendCount'[i]]_vars


-----------------------------------------------------------------------------
(* process_once that raises or whose process stops before the commit       *)

\* defect: the claim is committed on its own, an invocation that stops
\* leaves what it has written
WorkerAbortKeepsWrites(p) ==
    /\ proc[p].pc \in {"w_claim", "w_resolve", "w_commit"}
    /\ lock = p
    /\ \A i \in 1..MaxDeliveries : sendCount[i] < MaxSends
    /\ db' = tx /\ lock' = 0 /\ UNCHANGED tx
    /\ proc' = [proc EXCEPT ![p] =
         [pc |-> "done", op |-> "worker_abort", at |-> proc[p].pc,
          done |-> SubSeq(proc[p].rows, 1, Min(proc[p].i, Len(proc[p].rows)))]]
    /\ UNCHANGED <<clock, sendCount>>

\* the invocation of p, its transaction open, ends without reaching line
\* 121: an exception leaves the with block and get_db rolls back (db.py
\* lines 43-45), or the process stops and the open transaction is never
\* committed.  done holds the rows it had claimed, the last one claimed
\* and not resolved when it stopped in "w_resolve".  Invocations stop
\* while no row has been sent MaxSends times.
WorkerAbort(p) ==
    /\ proc[p].pc \in {"w_claim", "w_resolve", "w_commit"}
    /\ lock = p
    /\ \A i \in 1..MaxDeliveries : sendCount[i] < MaxSends
    /\ tx' = db /\ lock' = 0 /\ UNCHANGED db
    /\ proc' = [proc EXCEPT ![p] =
         [pc |-> "done", op |-> "worker_abort", at |-> proc[p].pc,
          done |-> SubSeq(proc[p].rows, 1, Min(proc[p].i, Len(proc[p].rows)))]]
    /\ UNCHANGED <<clock, sendCount>>

\* enqueue and process_once, an invocation of which may stop at any point
NextCrash ==
    \/ Tick
    \/ \E p \in Procs :
         \/ enqueue_delivery(p)
         \/ WorkerStart(p)
         \/ WorkerClaim(p)
         \/ WorkerResolve(p)
         \/ WorkerCommit(p)
         \/ WorkerAbort(p)
         \/ Return(p)

CrashSpec == Init /\ [][NextCrash]_vars

\* the invocation of p stops in this step between the claim of a row and
\* the UPDATE of its outcome
StopsAfterClaim(p) ==
    proc[p].pc = "w_resolve" /\ proc'[p].pc = "done" /\ proc'[p].op = "worker_abort"

WorkerReturns(p) ==
    proc[p].pc = "w_commit" /\ proc'[p].pc = "done" /\ proc'[p].op = "worker"

\* C23: 'sending' is transient.  No stored row is ever 'sending'; when an
\* invocation of process_once returns, every row it selected is 'sent',
\* 'retrying' or 'failed', and it has taken exactly one outcome branch for
\* each of them.
C23_SendingTransient ==
    [][/\ \A i \in Rows(db') : db'.deliveries[i].status # "sending"
       /\ \A p \in Procs :
            WorkerReturns(p)
            => /\ \A k \in 1..Len(proc[p].rows) :
                    db'.deliveries[proc[p].rows[k].id].status
                      \in {"sent", "retrying", "failed"}
               /\ proc'[p].out.processed = Len(proc[p].rows)
               /\ proc'[p].out.sent + proc'[p].out.retried + proc'[p].out.failed
                    = Len(proc[p].rows)]_vars

\* an invocation has returned after a batch of two rows, one sent and one
\* failed, and no stored row is 'sending'
C23_Witness ==
    /\ \E p \in Procs :
         /\ Finished(p, "worker")
         /\ proc[p].out.processed = 2
         /\ proc[p].out.sent = 1
    /\ Len(db.deliveries) = 2
    /\ \A i \in Rows(db) : db.deliveries[i].status \in {"sent", "retrying", "failed"}


-----------------------------------------------------------------------------
(* process_once started by one scheduler: an invocation starts when the    *)
(* previous one has ended                                                  *)

\* p is inside an invocation of process_once
InWorker(p) == proc[p].pc \in {"w_claim", "w_resolve", "w_commit"}

\* worker_loop.main: the next iteration starts after the previous one
SequentialWorkerStart(p) ==
    /\ \A q \in Procs : ~InWorker(q)
    /\ WorkerStart(p)

\* enqueue and non-overlapping invocations of process_once
NextSequential ==
    \/ Tick
    \/ \E p \in Procs :
         \/ enqueue_delivery(p)
         \/ SequentialWorkerStart(p)
         \/ WorkerClaim(p)
         \/ WorkerResolve(p)
         \/ WorkerCommit(p)
         \/ Return(p)

SequentialSpec == Init /\ [][NextSequential]_vars

\* C24: under enqueue and non-overlapping process_once invocations every
\* stored row satisfies: 'queued' implies attempts = 0; 'retrying' implies
\* 1 <= attempts < max_attempts, last_error set and next_attempt_at set;
\* 'sent' implies attempts >= 1, last_error null and next_attempt_at null;
\* 'failed' implies attempts = max_attempts, last_error set and
\* next_attempt_at null.
C24_StatusFieldConsistency ==
    \A i \in Rows(db) :
      LET row == db.deliveries[i]
      IN  /\ row.status \in {"queued", "retrying", "sent", "failed"}
          /\ row.status = "queued" => row.attempts = 0
          /\ row.status = "retrying"
             => /\ 1 <= row.attempts /\ row.attempts < row.max_attempts
                /\ row.last_error # "NULL"
                /\ ~row.next_attempt_at.null
          /\ row.status = "sent"
             => /\ row.attempts >= 1
                /\ row.last_error = "NULL"
                /\ row.next_attempt_at.null
          /\ row.status = "failed"
             => /\ row.attempts = row.max_attempts
                /\ row.last_error # "NULL"
                /\ row.next_attempt_at.null

\* one stored row has exhausted its attempts and another has been sent
C24_Witness ==
    \E i, j \in Rows(db) :
      /\ db.deliveries[i].status = "failed" /\ db.deliveries[i].attempts = 5
      /\ db.deliveries[j].status = "sent" /\ db.deliveries[j].attempts = 1


\* p runs the SELECT of process_once in this step
WorkerSelects(p) ==
    /\ proc[p].pc = "idle"
    /\ \/ proc'[p].pc = "w_claim"
       \/ proc'[p].pc = "done" /\ proc'[p].op = "worker"

\* the ids p has selected in this step, in the order of the result
SelectedIds(p) ==
    IF proc'[p].pc = "w_claim"
    THEN [k \in 1..Len(proc'[p].rows) |-> proc'[p].rows[k].id]
    ELSE <<>>

TotalSends(T, tenant) ==
    SumOver([d \in Days |-> SendsOn(T, tenant, d)], Days)

\* the sends the tenant had used before the first state of the model
SendsBefore(T, tenant) ==
    IF tenant = 1 /\ \E i \in Rows(T) : T.deliveries[i].idempotency_key = "k0"
    THEN 199 ELSE 0

\* the rows of the tenant enqueued since the first state of the model
Enqueued(T, tenant) ==
    {i \in Rows(T) : T.deliveries[i].tenant_id = tenant
                     /\ T.deliveries[i].idempotency_key # "k0"}

\* C26: quota is charged once per accepted row, never per attempt.  No
\* step of process_once changes a counter row or a plan row, and a tenant's
\* sends_total is what it was plus 1 for each row enqueued since, however
\* many times the rows have been attempted.
C26_ChargedOncePerRow ==
    [][/\ \A p \in Procs :
            InWorker(p) /\ proc'[p] # proc[p]
            => /\ tx'.usage = tx.usage /\ tx'.plans = tx.plans
               /\ db'.usage = db.usage /\ db'.plans = db.plans
       /\ \A tenant \in Tenants :
            TotalSends(db', tenant)
              = SendsBefore(db', tenant) + Cardinality(Enqueued(db', tenant))]_vars

\* a row enqueued since the first state has been attempted twice and its
\* tenant has been charged for it once
C26_Witness ==
    \E i \in Rows(db) :
      /\ db.deliveries[i].idempotency_key # "k0"
      /\ db.deliveries[i].attempts >= 2
      /\ Enqueued(db, db.deliveries[i].tenant_id) = {i}
      /\ TotalSends(db, db.deliveries[i].tenant_id)
           = SendsBefore(db, db.deliveries[i].tenant_id) + 1

\* the columns no statement of process_once assigns
SameIdentity(a, b) ==
    /\ a.id = b.id /\ a.tenant_id = b.tenant_id /\ a.campaign_id = b.campaign_id
    /\ a.channel = b.channel /\ a.to_addr = b.to_addr
    /\ a.payload_json = b.payload_json /\ a.idempotency_key = b.idempotency_key
    /\ a.max_attempts = b.max_attempts

\* the ids of the rows the invocation of p selected
FrameIds(p) == {proc[p].rows[k].id : k \in 1..Len(proc[p].rows)}

\* table D2 is table D1 with only status, attempts, next_attempt_at and
\* last_error of the rows in ids rewritten, and no row removed
FrameKept(D1, D2, ids) ==
    /\ Len(D2) = Len(D1)
    /\ \A i \in 1..Len(D1) :
         /\ SameIdentity(D1[i], D2[i])
         /\ i \notin ids => D2[i] = D1[i]

\* C27: worker frame.  A step of process_once rewrites only status, attempts,
\* next_attempt_at and last_error, and only in the rows its invocation
\* selected; every other column and every other row is left as it was, in
\* the transaction and in the committed store.  No step of any operation
\* removes a delivery row: the table only grows and a stored row keeps its
\* identity columns.
C27_WorkerFrame ==
    [][/\ \A p \in Procs :
            InWorker(p) /\ proc'[p] # proc[p]
            => /\ FrameKept(tx.deliveries, tx'.deliveries, FrameIds(p))
               /\ FrameKept(db.deliveries, db'.deliveries, FrameIds(p))
       /\ Len(db'.deliveries) >= Len(db.deliveries)
       /\ \A i \in 1..Len(db.deliveries) :
            SameIdentity(db.deliveries[i], db'.deliveries[i])]_vars

\* an invocation that selected one of two stored rows has committed: the row
\* it selected is resolved and the other row is still queued and unattempted
C27_Witness ==
    \E p \in Procs :
      /\ Finished(p, "worker") /\ proc[p].out.processed = 1
      /\ Len(db.deliveries) = 2
      /\ \E i, j \in Rows(db) :
           /\ i # j
           /\ db.deliveries[i].status \in {"sent", "retrying", "failed"}
           /\ db.deliveries[i].attempts >= 1
           /\ db.deliveries[j].status = "queued" /\ db.deliveries[j].attempts = 0


\* the ads of the tenant that have been promoted: an 'ok' record exists
AdsPromoted(T, tenant) ==
    {a \in 1..Len(T.ads) : T.ads[a].tenant_id = tenant /\ NoteCount(T, a, "ok") >= 1}

\* C28: counter accounting.  After any sequence of enqueue, segment-send and
\* promoter operations a tenant's sends_total is what it was at the start
\* plus the number of delivery rows created since plus the number of its ads
\* promoted since, and in every counter row sends_total is at least
\* sends_whatsapp + sends_x + sends_email.
C28_CounterAccounting ==
    \A tenant \in Tenants :
      /\ TotalSends(db, tenant)
           = SendsBefore(db, tenant) + Cardinality(Enqueued(db, tenant))
             + Cardinality(AdsPromoted(db, tenant))
      /\ \A d \in Days :
           <<tenant, d>> \in DOMAIN db.usage
           => db.usage[<<tenant, d>>].sends_total
                >= db.usage[<<tenant, d>>].sends_whatsapp
                   + db.usage[<<tenant, d>>].sends_x
                   + db.usage[<<tenant, d>>].sends_email

\* process p returns from automation_segment_send after its loop
SegmentSends(p) ==
    /\ proc[p].pc = "idle" /\ proc'[p].pc = "done"
    /\ proc'[p].op = "segment" /\ proc'[p].res = "ok"

\* the rows automation_segment_send creates carry the rendered body
SegmentRow(row) == row.payload_json = "{body}"

\* the contacts among the first n that have no address on the channel
NoAddress(channel, n) ==
    {k \in 1..n : (IF channel = "email" THEN Contacts[k].email ELSE Contacts[k].phone) = ""}

\* what one segment send leaves behind: out are its counters, D and D2 the
\* delivery table before and after it, tenant the owner of the segment
SegmentAdmits(out, T, T2, tenant) ==
    LET D == T.deliveries
        D2 == T2.deliveries
        examined == out.queued + out.skipped + out.failed
    IN  /\ out.failed \in {0, 1}
        /\ examined <= Len(Contacts)
        /\ out.failed = 0 => examined = Len(Contacts)
        /\ out.failed = 1 => \/ AtLimit(T2, tenant, clock)
                             \/ PlanOf(T2, tenant).status = "canceled"
        /\ Len(D2) = Len(D) + out.queued
        /\ \A i \in 1..Len(D) : D2[i] = D[i]
        /\ TotalSends(T2, tenant) = TotalSends(T, tenant) + out.queued
        /\ \E sched \in SchedInputs, ch \in {"email", "whatsapp"} :
             /\ out.skipped = Cardinality(NoAddress(ch, examined - out.failed))
             /\ \A i \in (Len(D) + 1)..Len(D2) :
                  /\ D2[i].status = "queued" /\ D2[i].attempts = 0
                  /\ D2[i].next_attempt_at = sched
                  /\ D2[i].channel = ch /\ D2[i].to_addr # ""
                  /\ D2[i].tenant_id = tenant /\ SegmentRow(D2[i])

\* C29: segment broadcast admission.  automation_segment_send examines the
\* contacts in order, skips a contact without address without a quota check,
\* stops at the first contact the quota check rejects (failed = 1) and
\* commits the rows and increments made before it; every row it creates is
\* 'queued' with attempts 0 and next_attempt_at equal to the requested
\* scheduled_at, and process_once does not claim such a row for its first
\* attempt before the instant its scheduled_at denotes.
C29_SegmentAdmission ==
    [][\A p \in Procs :
         /\ SegmentSends(p)
            => SegmentAdmits(proc'[p].out, db, db', SegmentOwner(1))
         /\ Claims(p) /\ SegmentRow(ClaimedRow(p))
               /\ ClaimedRow(p).status = "queued" /\ ClaimedRow(p).attempts = 0
            => \/ ClaimedRow(p).next_attempt_at.null
               \/ Instant(ClaimedRow(p).next_attempt_at) <= proc[p].now]_vars

\* a non-overlapping invocation of process_once that may stop before its
\* commit, as the loop of worker_loop runs them one after the other
NextLoop ==
    \/ Tick
    \/ \E p \in Procs :
         \/ enqueue_delivery(p)
         \/ SequentialWorkerStart(p)
         \/ WorkerClaim(p)
         \/ WorkerResolve(p)
         \/ WorkerCommit(p)
         \/ WorkerAbort(p)
         \/ Return(p)

LoopSpec == Init /\ [][NextLoop]_vars

\* the invocation of p raises or is stopped before its commit
WorkerStops(p) ==
    InWorker(p) /\ proc'[p].pc = "done" /\ proc'[p].op = "worker_abort"

\* the batch size worker_loop passes to process_once
LoopBatch == 50

\* the ids the next invocation of the loop selects on the stored rows
SelectedNext == Limit(Select(db'.deliveries, 1, clock'), LoopBatch)

\* C30: batch commit is all-or-nothing.  No claim and no resolution of an
\* invocation is stored before its commit, the commit stores those of the
\* whole batch together, and when the invocation stops at its k-th row every
\* row of the batch, the k-1 resolved ones included, is stored as the
\* invocation selected it (same attempts, still 'queued' or 'retrying') and
\* is selected again by the next invocation of the loop.
C30_BatchAllOrNothing ==
    [][\A p \in Procs :
         /\ InWorker(p) /\ proc'[p] # proc[p] /\ ~WorkerReturns(p)
            => db' = db
         /\ WorkerReturns(p)
            => /\ db' = tx
               /\ \A k \in 1..Len(proc[p].rows) :
                    /\ db'.deliveries[proc[p].rows[k].id].attempts
                         = proc[p].rows[k].attempts + 1
                    /\ db'.deliveries[proc[p].rows[k].id].status
                         \in {"sent", "retrying", "failed"}
         /\ WorkerStops(p)
            => /\ tx' = db /\ lock' = 0
               /\ \A k \in 1..Len(proc[p].rows) :
                    /\ db'.deliveries[proc[p].rows[k].id].attempts = proc[p].rows[k].attempts
                    /\ db'.deliveries[proc[p].rows[k].id].status \in {"queued", "retrying"}
                    /\ \E n \in 1..Len(SelectedNext) :
                         SelectedNext[n] = proc[p].rows[k].id]_vars

\* an invocation with a batch of two rows has stopped at its second row,
\* after resolving the first, and both rows are stored unattempted
C30_Witness ==
    \E p \in Procs :
      /\ proc[p].pc = "done" /\ proc[p].op = "worker_abort" /\ proc[p].at = "w_resolve"
      /\ Len(proc[p].done) = 2
      /\ \A k \in 1..2 :
           /\ db.deliveries[proc[p].done[k].id].attempts = proc[p].done[k].attempts
           /\ db.deliveries[proc[p].done[k].id].status \in {"queued", "retrying"}
      /\ sendCount[proc[p].done[1].id] + sendCount[proc[p].done[2].id] >= 1

====
